---------------------------- MODULE Spec2Model ----------------------------
(***************************************************************************)
(* A model of chumash_embedding_model.ipynb: the Mishnah RAG notebook.     *)
(*                                                                         *)
(* Ingestion: MishnahFetcher downloads every tractate, the rows loop and   *)
(* the pandas cleaning build df_mishnah, the groupby loop builds one       *)
(* Document per (tractate, chapter), VectorStoreIndex.from_documents       *)
(* builds the index.  Serving: gr.ChatInterface calls chat_interface,      *)
(* which calls the one global ContextChatEngine over the one global        *)
(* ChatMemoryBuffer.                                                       *)
(*                                                                         *)
(* Text is a sequence of lexemes (strings).  "<" is the markup delimiter,  *)
(* "\n" the line separator, "L" stands for a long passage of prose (it     *)
(* counts PassageTokens tokens), every other lexeme counts one token.      *)
(*                                                                         *)
(* Library calls are modelled by what the installed library does at the    *)
(* call site (cell 1 installs the latest requests, pandas, llama-index and *)
(* gradio; the kernel is Python 3.10, hence pandas 2.x).                   *)
(***************************************************************************)
EXTENDS Integers, Sequences, FiniteSets, TLC

VARIABLES
    pc,            \* the notebook's position: which step runs next
    texts,         \* get_all_mishnah_texts' all_texts, in insertion order
    outcomes,      \* per fetched tractate, what the service answered (ghost)
    escaped,       \* the exception that escaped the running cell, or "none"
    rows,          \* the list of (tractate, chapter, mishnah, text) tuples
    df_mishnah,    \* the DataFrame after cleaning
    documents,     \* the chapter-level Documents
    nodes,         \* the index: one entry (node) per embedded chunk
    chat_memory,   \* the global ChatMemoryBuffer's chat store
    last,          \* what the last chat_interface call did (ghost)
    results        \* the last retriever call: its query and what it returned (ghost)

vars == <<pc, texts, outcomes, escaped, rows, df_mishnah, documents, nodes,
          chat_memory, last, results>>


---------------------------------------------------------------------------
(* Bounds of the model.                                                    *)

\* How many tractates of the list of 63 the model fetches.
NumSections == 2
\* The most chapters, and the most Units, the whole fetched corpus holds.
MaxChapters == 2
MaxRows == 2
\* The most chunks the sentence splitter cuts one Document into.
MaxChunks == 2
\* How many tokens the long passage "L" counts.
PassageTokens == 600

Min(a, b) == IF a <= b THEN a ELSE b

---------------------------------------------------------------------------
(* MishnahFetcher                                                          *)

\* self.mishnah_tractates: the head of the list of 63 names.
mishnah_tractates ==
    SubSeq(<<"Berakhot", "Peah", "Demai", "Kilayim", "Sheviit", "Terumot">>,
           1, NumSections)

\* Python's order of these names (str comparison), which groupby sorts by.
AlphaRank(name) ==
    CASE name = "Berakhot" -> 1
      [] name = "Demai"    -> 2
      [] name = "Kilayim"  -> 3
      [] name = "Peah"     -> 4
      [] name = "Sheviit"  -> 5
      [] name = "Terumot"  -> 6

\* A Unit as the service's JSON gives it: null, or a string.
JNull == [null |-> TRUE, s |-> <<>>]
JStr(s) == [null |-> FALSE, s |-> s]

\* The raw Unit values the modelled service returns: null, the empty string,
\* text that starts with markup, text with trailing markup, a long passage.
RawUnits ==
    { JNull, JStr(<<>>), JStr(<<"<", "b">>), JStr(<<"a", "<", "b">>),
      JStr(<<"L">>) }

\* The chapters of at most b Units a response may hold.
ChapterChoices(b) ==
    UNION { [1..n -> RawUnits] : n \in 0..b }

RECURSIVE ChapterLists(_, _)
\* The chapter lists of at most k chapters and at most b Units in all.
ChapterLists(k, b) ==
    IF k = 0 THEN { <<>> }
    ELSE { <<>> } \cup
         UNION { { <<c>> \o rest : rest \in ChapterLists(k - 1, b - Len(c)) } :
                 c \in ChapterChoices(b) }

\* What the text service may answer to one GET (requests.get .. response.json()):
\* a transport error, an HTTP error status, a body that is not JSON, a JSON
\* value that is not an object, an object without 'text', an object whose
\* 'text' is not a list, an object whose 'text' is a chapter list.
FailureKinds ==
    { "ConnectionError", "HTTPError", "InvalidJSON", "JSONNotObject",
      "ObjectNoText", "ObjectTextNotList" }

\* The responses of at most k chapters and at most b Units.
Responses(k, b) ==
    { [kind |-> f, chapters |-> <<>>] : f \in FailureKinds } \cup
    { [kind |-> "ObjectTextList", chapters |-> cl] : cl \in ChapterLists(k, b) }

\* What the fetch loop's ghost records of a response: the three errors the
\* except clause catches are one outcome.
OutcomeOf(resp) ==
    IF resp.kind \in {"ConnectionError", "HTTPError", "InvalidJSON"}
    THEN "RequestException" ELSE resp.kind

\* get_mishnah_tractate_text on one response: the value returned, or the
\* exception that escapes.  requests.get's transport errors, raise_for_status'
\* HTTPError and response.json()'s JSONDecodeError are RequestExceptions and
\* are caught; data.get on a JSON value that is not an object raises
\* AttributeError, which the except clause does not name.
get_mishnah_tractate_text(resp) ==
    CASE resp.kind \in {"ConnectionError", "HTTPError", "InvalidJSON"} ->
            [raised |-> "none", isList |-> TRUE, chapters |-> <<>>]
      [] resp.kind = "JSONNotObject" ->
            [raised |-> "AttributeError", isList |-> TRUE, chapters |-> <<>>]
      [] resp.kind = "ObjectNoText" ->
            [raised |-> "none", isList |-> TRUE, chapters |-> <<>>]
      [] resp.kind = "ObjectTextNotList" ->
            [raised |-> "none", isList |-> FALSE, chapters |-> <<>>]
      [] resp.kind = "ObjectTextList" ->
            [raised |-> "none", isList |-> TRUE, chapters |-> resp.chapters]

RECURSIVE SumLen(_)
SumLen(chapters) ==
    IF chapters = <<>> THEN 0
    ELSE Len(Head(chapters)) + SumLen(Tail(chapters))

RECURSIVE UnitsFetched(_)
UnitsFetched(ts) ==
    IF ts = <<>> THEN 0
    ELSE SumLen(Head(ts).chapters) + UnitsFetched(Tail(ts))

RECURSIVE ChaptersFetched(_)
ChaptersFetched(ts) ==
    IF ts = <<>> THEN 0
    ELSE Len(Head(ts).chapters) + ChaptersFetched(Tail(ts))

\* One iteration of get_all_mishnah_texts' loop: fetch the next tractate and
\* store what came back; an escaping exception ends the cell.
FetchTractate ==
    /\ pc = "fetch"
    /\ Len(texts) < Len(mishnah_tractates)
    /\ \E resp \in Responses(MaxChapters - ChaptersFetched(texts),
                             MaxRows - UnitsFetched(texts)) :
         LET tractate == mishnah_tractates[Len(texts) + 1]
             got == get_mishnah_tractate_text(resp)
         IN  IF got.raised # "none"
             THEN /\ pc' = "crashed"
                  /\ escaped' = got.raised
                  /\ outcomes' = Append(outcomes, OutcomeOf(resp))
                  /\ UNCHANGED texts
             ELSE /\ texts' = Append(texts, [tractate |-> tractate,
                                             isList |-> got.isList,
                                             chapters |-> got.chapters])
                  /\ outcomes' = Append(outcomes, OutcomeOf(resp))
                  /\ pc' = IF Len(texts') = Len(mishnah_tractates)
                           THEN "rows" ELSE "fetch"
                  /\ UNCHANGED escaped
    /\ UNCHANGED <<rows, df_mishnah, documents, nodes, chat_memory, last, results>>

---------------------------------------------------------------------------
(* The rows loop and the pandas cleaning                                   *)

\* The rows of one chapter: enumerate(chapter, 1).
RowsOfChapter(tractate, chapter_idx, chapter) ==
    [mishnah_idx \in 1..Len(chapter) |->
        [tractate |-> tractate, chapter |-> chapter_idx,
         mishnah |-> mishnah_idx, text |-> chapter[mishnah_idx]]]

RECURSIVE RowsOfChapters(_, _, _)
\* The rows of chapters[chapter_idx..]: enumerate(chapters, 1).
RowsOfChapters(tractate, chapters, chapter_idx) ==
    IF chapter_idx > Len(chapters) THEN <<>>
    ELSE RowsOfChapter(tractate, chapter_idx, chapters[chapter_idx])
         \o RowsOfChapters(tractate, chapters, chapter_idx + 1)

\* "if not chapters or not isinstance(chapters, list)": the tractate is skipped.
Skipped(t) == t.chapters = <<>> \/ ~t.isList

RECURSIVE BuildRowsOf_break(_)
\* The rows loop with `break` where the code has `continue`.
BuildRowsOf_break(ts) ==
    IF ts = <<>> \/ Skipped(Head(ts)) THEN <<>>
    ELSE RowsOfChapters(Head(ts).tractate, Head(ts).chapters, 1)
         \o BuildRowsOf_break(Tail(ts))

RECURSIVE BuildRowsOf(_)
\* The rows loop over texts.items().
BuildRowsOf(ts) ==
    IF ts = <<>> THEN <<>>
    ELSE (IF Skipped(Head(ts)) THEN <<>>
          ELSE RowsOfChapters(Head(ts).tractate, Head(ts).chapters, 1))
         \o BuildRowsOf(Tail(ts))

\* .astype(str) on one cell (pandas 2.x): None becomes the string 'None', a
\* string stays what it is; the result is never missing.
astype_str(cell) == IF cell.null THEN JStr(<<"None">>) ELSE cell

RECURSIVE UpToMarkup(_)
\* s.split("<")[0]: the text before the first "<".
UpToMarkup(s) ==
    IF s = <<>> \/ Head(s) = "<" THEN <<>>
    ELSE <<Head(s)>> \o UpToMarkup(Tail(s))

\* .str.split("<").str[0] on one cell: a missing cell stays missing.
split_first(cell) == IF cell.null THEN cell ELSE JStr(UpToMarkup(cell.s))

\* df_mishnah.dropna(): the rows without a missing value.
dropna(df) == SelectSeq(df, LAMBDA r : ~r.text.null)

\* Lines 119-122: the DataFrame of the rows, its text column cleaned, then dropna.
CleanRows(rs) ==
    dropna([i \in 1..Len(rs) |->
              [rs[i] EXCEPT !.text = split_first(astype_str(rs[i].text))]])

---------------------------------------------------------------------------
(* The Documents                                                           *)

\* str(n) for the numbers the model reaches.
ToStr(n) ==
    <<"1", "2", "3", "4", "5", "6", "7", "8", "9", "10", "11", "12", "13",
      "14", "15", "16", "17", "18", "19", "20">>[n]

\* f"Mishnah {r['mishnah']}: {r['text']}"
MishnahLine(r) == <<"Mishnah ", ToStr(r.mishnah), ": ">> \o r.text.s

RECURSIVE JoinLines(_)
\* "\n".join(lines)
JoinLines(lines) ==
    IF lines = <<>> THEN <<>>
    ELSE IF Len(lines) = 1 THEN Head(lines)
    ELSE Head(lines) \o <<"\n">> \o JoinLines(Tail(lines))

\* groupby's order of the group keys: sorted by tractate, then by chapter.
KeyBefore(a, b) ==
    \/ AlphaRank(a[1]) < AlphaRank(b[1])
    \/ a[1] = b[1] /\ a[2] < b[2]

GroupKeys(df) == { <<df[i].tractate, df[i].chapter>> : i \in 1..Len(df) }

\* The keys in groupby's order: the i-th has i - 1 keys before it.
SortedKeys(keys) ==
    LET before == [k \in keys |-> Cardinality({ o \in keys : KeyBefore(o, k) })]
    IN  [i \in 1..Cardinality(keys) |-> CHOOSE k \in keys : before[k] = i - 1]

\* A groupby on the chapter alone.
GroupOf_chapter(df, key) == SelectSeq(df, LAMBDA r : r.chapter = key[2])

\* The group of one key: its rows, in the DataFrame's order.
GroupOf(df, key) ==
    SelectSeq(df, LAMBDA r : r.tractate = key[1] /\ r.chapter = key[2])

\* One Document: the chapter's lines joined, and its metadata.
DocumentOf(df, key) ==
    LET group == GroupOf(df, key)
    IN  [text |-> JoinLines([i \in 1..Len(group) |-> MishnahLine(group[i])]),
         tractate |-> key[1], chapter |-> key[2]]

\* Lines 176-185: one Document per (tractate, chapter) group.
BuildDocumentsOf(df) ==
    LET keys == SortedKeys(GroupKeys(df))
    IN  [i \in 1..Len(keys) |-> DocumentOf(df, keys[i])]

\* Lines 110-117.
BuildRows ==
    /\ pc = "rows"
    /\ rows' = BuildRowsOf(texts)
    /\ pc' = "clean"
    /\ UNCHANGED <<texts, outcomes, escaped, df_mishnah, documents, nodes,
                   chat_memory, last, results>>

\* Lines 119-122.
CleanText ==
    /\ pc = "clean"
    /\ df_mishnah' = CleanRows(rows)
    /\ pc' = "documents"
    /\ UNCHANGED <<texts, outcomes, escaped, rows, documents, nodes,
                   chat_memory, last, results>>

\* Lines 176-185.
BuildDocuments ==
    /\ pc = "documents"
    /\ documents' = BuildDocumentsOf(df_mishnah)
    /\ pc' = "index"
    /\ UNCHANGED <<texts, outcomes, escaped, rows, df_mishnah, nodes,
                   chat_memory, last, results>>

---------------------------------------------------------------------------
(* The index                                                               *)

\* Settings.chunk_size
chunk_size == 512

\* The tokenizer's count of a text: "L" is a long passage, the rest one each.
LexemeTokens(x) == IF x = "L" THEN PassageTokens ELSE 1

RECURSIVE TokenCount(_)
TokenCount(text) ==
    IF text = <<>> THEN 0
    ELSE LexemeTokens(Head(text)) + TokenCount(Tail(text))

\* The metadata string the node parser reserves room for.
MetadataStr(doc) ==
    <<"tractate: ", doc.tractate, "\n", "chapter: ", ToStr(doc.chapter)>>

\* The sentence splitter returns a text whole when its tokens fit in the
\* chunk size less the metadata's tokens, and cuts it into chunks otherwise.
FitsOneChunk(doc) ==
    TokenCount(doc.text) <= chunk_size - TokenCount(MetadataStr(doc))

\* A node parser that never cuts a Document.
ChunkChoices_whole(doc) == {1}

\* How many chunks one Document is cut into: one when it fits, else more
\* (how many depends on where its sentences end).
ChunkChoices(doc) == IF FitsOneChunk(doc) THEN {1} ELSE 2..MaxChunks

RECURSIVE ChunkCounts(_)
\* The chunk counts of a list of Documents, one per Document.
ChunkCounts(docs) ==
    IF docs = <<>> THEN { <<>> }
    ELSE { <<c>> \o rest : c \in ChunkChoices(Head(docs)),
                           rest \in ChunkCounts(Tail(docs)) }

RECURSIVE ChunksFrom(_, _)
\* The chunks of documents i.. in ingestion order: (document, chunk number).
ChunksFrom(counts, i) ==
    IF i > Len(counts) THEN <<>>
    ELSE [j \in 1..counts[i] |-> [doc |-> i, chunk |-> j]]
         \o ChunksFrom(counts, i + 1)

\* The embedding service is a function of the chunk's text.  The model's
\* stand-in tells the chunks apart by their Document's token count and
\* their chunk number, and has two values.
Embed(doc, j) == ((TokenCount(doc.text) + j) % 2) + 1

\* Node ids are fresh uuid4 strings: their order is unrelated to ingestion
\* order.  The model draws the order from two: ids that grow with ingestion
\* order and ids that fall with it.
IdOrders(n) ==
    { [i \in 1..n |-> i], [i \in 1..n |-> n + 1 - i] }

\* The index entries of the chunks: each with its node id and its embedding.
IndexEntries(docs, chunks, ids) ==
    [i \in 1..Len(chunks) |->
        [doc |-> chunks[i].doc, chunk |-> chunks[i].chunk,
         node_id |-> ids[i],
         emb |-> Embed(docs[chunks[i].doc], chunks[i].chunk)]]

\* Line 207: VectorStoreIndex.from_documents(documents).
BuildIndex ==
    /\ pc = "index"
    /\ \E counts \in ChunkCounts(documents) :
         LET chunks == ChunksFrom(counts, 1)
         IN  \E ids \in IdOrders(Len(chunks)) :
               nodes' = IndexEntries(documents, chunks, ids)
    /\ pc' = "engine"
    /\ UNCHANGED <<texts, outcomes, escaped, rows, df_mishnah, documents,
                   chat_memory, last, results>>

---------------------------------------------------------------------------
(* The retriever                                                           *)

\* index.as_retriever(similarity_top_k=10)
similarity_top_k == 10

\* What a user types: the notebook's third example, and a very long paste.
UserMessages == { "Who is wealthy?", "LONG QUESTION" }

\* The embedding service's answer for a query, and the similarity of a query
\* to a chunk: stand-ins with two values each.
QueryEmbedding(message) == IF message = "Who is wealthy?" THEN 1 ELSE 2
Similarity(qe, emb) == IF qe = emb THEN 2 ELSE 1

\* Python's order of the (similarity, node_id) tuples on the heap.
ItemLess(a, b) == a.sim < b.sim \/ (a.sim = b.sim /\ a.node_id < b.node_id)

RECURSIVE siftdown(_, _, _, _)
\* heapq._siftdown(heap, startpos, pos), newitem being heap[pos]; positions
\* count from 0 as in Python.
siftdown(heap, startpos, pos, newitem) ==
    IF pos > startpos
    THEN LET parentpos == (pos - 1) \div 2
             parent == heap[parentpos + 1]
         IN  IF ItemLess(newitem, parent)
             THEN siftdown([heap EXCEPT ![pos + 1] = parent], startpos,
                           parentpos, newitem)
             ELSE [heap EXCEPT ![pos + 1] = newitem]
    ELSE [heap EXCEPT ![pos + 1] = newitem]

\* heapq.heappush(heap, item)
heappush(heap, item) == siftdown(Append(heap, item), 0, Len(heap), item)

RECURSIVE bubble(_, _)
\* heapq._siftup's loop: the smaller child moves up until a leaf is hit.
bubble(heap, pos) ==
    LET endpos == Len(heap)
        childpos == 2 * pos + 1
        rightpos == childpos + 1
        child == IF rightpos < endpos
                    /\ ~ItemLess(heap[childpos + 1], heap[rightpos + 1])
                 THEN rightpos ELSE childpos
    IN  IF childpos < endpos
        THEN bubble([heap EXCEPT ![pos + 1] = heap[child + 1]], child)
        ELSE [heap |-> heap, pos |-> pos]

\* heapq._siftup(heap, pos)
siftup(heap, pos) ==
    LET newitem == heap[pos + 1]
        b == bubble(heap, pos)
    IN  siftdown(b.heap, pos, b.pos, newitem)

\* list.pop() where the code has heapq.heappop: the last item is dropped.
heappop_last(heap) == SubSeq(heap, 1, Len(heap) - 1)

\* heapq.heappop(heap): the heap it leaves (the popped item is dropped).
heappop(heap) ==
    LET lastelt == heap[Len(heap)]
        rest == SubSeq(heap, 1, Len(heap) - 1)
    IN  IF rest # <<>> THEN siftup([rest EXCEPT ![1] = lastelt], 0) ELSE rest

RECURSIVE similarity_heap(_, _, _, _, _)
\* get_top_k_embeddings' loop over the index entries from position i on.
similarity_heap(entries, qe, k, i, heap) ==
    IF i > Len(entries) THEN heap
    ELSE LET item == [sim |-> Similarity(qe, entries[i].emb),
                      node_id |-> entries[i].node_id]
             pushed == heappush(heap, item)
         IN  similarity_heap(entries, qe, k, i + 1,
                             IF Len(pushed) > k THEN heappop(pushed) ELSE pushed)

RECURSIVE sorted_reverse(_)
\* sorted(items, key=sim, reverse=True): descending, equal keys keep their order.
sorted_reverse(items) ==
    IF items = <<>> THEN <<>>
    ELSE LET rest == sorted_reverse(SubSeq(items, 1, Len(items) - 1))
             x == items[Len(items)]
             before == SelectSeq(rest, LAMBDA y : y.sim >= x.sim)
             after == SelectSeq(rest, LAMBDA y : y.sim < x.sim)
         IN  before \o <<x>> \o after

\* The retriever on one query: the (similarity, node id) pairs of the top k.
retrieve(entries, message) ==
    sorted_reverse(similarity_heap(entries, QueryEmbedding(message),
                                   similarity_top_k, 1, <<>>))

\* A call of the retriever outside a chat turn.
Retrieve ==
    /\ pc = "serve"
    /\ \E message \in UserMessages :
         results' = [query |-> message, hits |-> retrieve(nodes, message)]
    /\ UNCHANGED <<pc, texts, outcomes, escaped, rows, df_mishnah, documents,
                   nodes, chat_memory, last>>

---------------------------------------------------------------------------
(* The chat memory                                                         *)

\* ChatMemoryBuffer.from_defaults(token_limit=8000)
token_limit == 8000

\* The sentence the system prompt tells the model to answer with.
Refusal == "I cannot find a teaching in the Mishnah to answer that."

\* What the response synthesizer returns when it is given no node.
EmptyResponse == "Empty Response"

\* What the generation service may return.
LLMOutputs == { "ANSWER", "LONG ANSWER", Refusal }

\* The memory's tokenizer on one message's content.
ContentTokens(content) ==
    CASE content = "Who is wealthy?" -> 4
      [] content = "LONG QUESTION"   -> 9000
      [] content = "ANSWER"          -> 100
      [] content = "LONG ANSWER"     -> 4500
      [] content = Refusal           -> 13
      [] content = EmptyResponse     -> 2

RECURSIVE token_count_for_messages(_)
\* ChatMemoryBuffer._token_count_for_messages: the tokens of the contents.
token_count_for_messages(messages) ==
    IF messages = <<>> THEN 0
    ELSE ContentTokens(Head(messages).content)
         + token_count_for_messages(Tail(messages))

\* chat_history[-message_count] and chat_history[-message_count:] in Python:
\* -0 is 0, so a count of 0 reads the first message and slices the whole list.
FromEnd(chat_history, message_count) ==
    IF message_count = 0 THEN chat_history[1]
    ELSE chat_history[Len(chat_history) - message_count + 1]

LastMessages(chat_history, message_count) ==
    IF message_count = 0 THEN chat_history
    ELSE SubSeq(chat_history, Len(chat_history) - message_count + 1,
                Len(chat_history))

RECURSIVE skip_assistant(_, _)
\* get's inner loop: the history handed out never starts with an assistant
\* message.
skip_assistant(chat_history, message_count) ==
    IF FromEnd(chat_history, message_count).role = "assistant"
    THEN skip_assistant(chat_history, message_count - 1)
    ELSE message_count

RECURSIVE shrink(_, _, _)
\* get's outer loop: drop the oldest messages while the tokens exceed the
\* limit and more than one message is left.
shrink(chat_history, message_count, token_count) ==
    IF token_count > token_limit /\ message_count > 1
    THEN LET fewer == skip_assistant(chat_history, message_count - 1)
         IN  shrink(chat_history, fewer,
                    token_count_for_messages(LastMessages(chat_history, fewer)))
    ELSE [message_count |-> message_count, token_count |-> token_count]

\* A get() without the final check for a history that is still too long.
memory_get_unchecked(chat_history) ==
    LET s == shrink(chat_history, Len(chat_history),
                    token_count_for_messages(chat_history))
    IN  LastMessages(chat_history, s.message_count)

\* ChatMemoryBuffer.get(): the history handed to the model.
memory_get(chat_history) ==
    LET s == shrink(chat_history, Len(chat_history),
                    token_count_for_messages(chat_history))
    IN  IF s.token_count > token_limit \/ s.message_count <= 0 THEN <<>>
        ELSE LastMessages(chat_history, s.message_count)

\* ChatMemoryBuffer.put(): the chat store grows by the message.
memory_put(chat_history, message) == Append(chat_history, message)

---------------------------------------------------------------------------
(* The chat engine and the Gradio handler                                  *)

\* The browser sessions that talk to the one launched interface.
Sessions == { "s1", "s2" }

\* The most calls of chat_interface the model follows.
MaxTurns == 3

\* What one call of the generation service does: it raises, or it answers.
GenerationOutcomes == { "raise" } \cup LLMOutputs

\* A chat engine that puts the user message before it generates, so that a
\* failed generation leaves it in the memory.
chat_user_first(memory, entries, session, message, generation) ==
    LET retrieved == retrieve(entries, message)
        user_message == [role |-> "user", content |-> message,
                         session |-> session]
        with_user == memory_put(memory, user_message)
        raised == retrieved # <<>> /\ generation = "raise"
        response == IF retrieved = <<>> THEN EmptyResponse ELSE generation
        ai_message == [role |-> "assistant", content |-> response,
                       session |-> session]
    IN  [memory |-> IF raised THEN with_user
                    ELSE memory_put(with_user, ai_message),
         raised |-> raised,
         response |-> IF raised THEN "none" ELSE response,
         view |-> memory_get(memory),
         retrieved |-> retrieved]

\* ContextChatEngine.chat(message) on the global memory and index: retrieve,
\* read the memory, synthesize (no node: "Empty Response", without a call of
\* the generation service), and only then put the user message and the
\* answer.  `session` tags the messages with the session that sent them.
chat(memory, entries, session, message, generation) ==
    LET retrieved == retrieve(entries, message)
        chat_history == memory_get(memory)
        raised == retrieved # <<>> /\ generation = "raise"
        response == IF retrieved = <<>> THEN EmptyResponse ELSE generation
        user_message == [role |-> "user", content |-> message,
                         session |-> session]
        ai_message == [role |-> "assistant", content |-> response,
                       session |-> session]
    IN  [memory |-> IF raised THEN memory
                    ELSE memory_put(memory_put(memory, user_message), ai_message),
         raised |-> raised,
         response |-> IF raised THEN "none" ELSE response,
         view |-> chat_history,
         retrieved |-> retrieved]

NoRetrieval == [query |-> "none", hits |-> <<>>]

NoCall == [n |-> 0, session |-> "none", message |-> "none", raised |-> FALSE,
           response |-> "none", before |-> <<>>, view |-> <<>>]

\* Lines 229-245: the retriever, the memory and the chat engine are created.
CreateChatEngine ==
    /\ pc = "engine"
    /\ chat_memory' = <<>>
    /\ pc' = "serve"
    /\ UNCHANGED <<texts, outcomes, escaped, rows, df_mishnah, documents,
                   nodes, last, results>>

\* Lines 267-269: chat_interface(message, history), called by Gradio for a
\* message of one session; `history` is not used.  Gradio's queue runs one
\* call of the handler at a time.
ChatInterface ==
    /\ pc = "serve"
    /\ last.n < MaxTurns
    /\ \E session \in Sessions, message \in UserMessages,
          generation \in GenerationOutcomes :
         \E r \in { chat(chat_memory, nodes, session, message, generation) } :
             /\ chat_memory' = r.memory
             /\ results' = [query |-> message, hits |-> r.retrieved]
             /\ last' = [n |-> last.n + 1, session |-> session,
                         message |-> message, raised |-> r.raised,
                         response |-> r.response, before |-> chat_memory,
                         view |-> r.view]
    /\ UNCHANGED <<pc, texts, outcomes, escaped, rows, df_mishnah, documents,
                   nodes>>

---------------------------------------------------------------------------
(* Specifications                                                          *)

\* The notebook before cell 3 runs.
Init ==
    /\ pc = "fetch"
    /\ texts = <<>>
    /\ outcomes = <<>>
    /\ escaped = "none"
    /\ rows = <<>>
    /\ df_mishnah = <<>>
    /\ documents = <<>>
    /\ nodes = <<>>
    /\ chat_memory = <<>>
    /\ last = NoCall
    /\ results = NoRetrieval

\* Ingestion: cells 3, 5 and 6.
Next ==
    \/ FetchTractate
    \/ BuildRows
    \/ CleanText
    \/ BuildDocuments
    \/ BuildIndex

Spec == Init /\ [][Next]_vars

\* The most chapters of the corpus behind the serving specifications.
ChatNodes == 1
MaxNodes == 11

\* The corpus of a serving specification: the first tractate has n chapters
\* of one short Unit each, the other tractates failed to fetch.
ServingTexts(units) ==
    [i \in 1..Len(mishnah_tractates) |->
        [tractate |-> mishnah_tractates[i], isList |-> TRUE,
         chapters |-> IF i = 1 THEN [c \in 1..Len(units) |-> <<units[c]>>]
                      ELSE <<>>]]

ShortUnits == { JStr(<<>>), JStr(<<"a", "<", "b">>) }

\* The notebook after cell 6 (the index is built), for such a corpus.
Ingested(maxn) ==
    \E n \in 0..maxn : \E units \in [1..n -> ShortUnits] : \E ids \in IdOrders(n) :
      \E ts \in { ServingTexts(units) } :
        \E rs \in { BuildRowsOf(ts) } :
          \E df \in { CleanRows(rs) } :
            \E docs \in { BuildDocumentsOf(df) } :
              \E counts \in ChunkCounts(docs) :
                /\ texts = ts
                /\ outcomes = [i \in 1..Len(ts) |->
                                 IF i = 1 THEN "ObjectTextList"
                                 ELSE "RequestException"]
                /\ escaped = "none"
                /\ rows = rs
                /\ df_mishnah = df
                /\ documents = docs
                /\ nodes = IndexEntries(docs, ChunksFrom(counts, 1), ids)

\* Serving: cells 7 and 8 over a small index.
InitChat ==
    /\ pc = "engine"
    /\ Ingested(ChatNodes)
    /\ chat_memory = <<>>
    /\ last = NoCall
    /\ results = NoRetrieval

NextChat ==
    \/ CreateChatEngine
    \/ ChatInterface

SpecChat == InitChat /\ [][NextChat]_vars

\* The retriever alone, over an index larger than similarity_top_k.
InitRetrieve ==
    /\ pc = "serve"
    /\ Ingested(MaxNodes)
    /\ chat_memory = <<>>
    /\ last = NoCall
    /\ results = NoRetrieval

NextRetrieve == Retrieve

SpecRetrieve == InitRetrieve /\ [][NextRetrieve]_vars

---------------------------------------------------------------------------
(* Properties of ingestion (checked under Spec)                            *)

\* The Documents exist.
DocumentsBuilt == pc \in {"index", "engine", "serve"}

\* The text before the first "<", stated on its own: the longest prefix
\* that holds no "<".
LongestCleanPrefix(text) ==
    SubSeq(text, 1,
           CHOOSE n \in 0..Len(text) :
               /\ \A i \in 1..n : text[i] # "<"
               /\ n = Len(text) \/ text[n + 1] = "<")

\* A Unit that is empty or unparseable: null, or nothing left once the
\* markup is cut off.
InvalidUnit(raw) == raw.null \/ LongestCleanPrefix(raw.s) = <<>>

RECURSIVE SplitLines(_)
\* The lines of a text.
SplitLines(text) ==
    IF \A i \in 1..Len(text) : text[i] # "\n" THEN <<text>>
    ELSE LET cut == CHOOSE i \in 1..Len(text) :
                        text[i] = "\n" /\ \A j \in 1..(i - 1) : text[j] # "\n"
         IN  <<SubSeq(text, 1, cut - 1)>>
             \o SplitLines(SubSeq(text, cut + 1, Len(text)))

LinePrefix(n) == <<"Mishnah ", ToStr(n), ": ">>

StartsWith(line, prefix) ==
    Len(line) >= Len(prefix) /\ SubSeq(line, 1, Len(prefix)) = prefix

\* The positions in documents of the Documents of one (tractate, chapter).
DocumentsFor(tractate, chapter) ==
    { d \in 1..Len(documents) :
        documents[d].tractate = tractate /\ documents[d].chapter = chapter }

DocumentsOfTractate(tractate) ==
    { d \in 1..Len(documents) : documents[d].tractate = tractate }

\* The chapters of the i-th fetched tractate that the rows loop reads.
ChaptersRead(i) == IF Skipped(texts[i]) THEN <<>> ELSE texts[i].chapters

\* C1 (as claimed): whatever the service answers for each tractate, no
\* exception escapes get_all_mishnah_texts, every failing tractate maps to an
\* empty result, and the tractates after a failing one are still fetched.
C1_NoExceptionEscapesFetchAll ==
    /\ escaped = "none"
    /\ pc # "crashed"
    /\ \A i \in 1..Len(outcomes) :
         outcomes[i] \in {"RequestException", "JSONNotObject", "ObjectNoText"}
            => i <= Len(texts) /\ texts[i].isList /\ texts[i].chapters = <<>>

\* C2 (as claimed): a Unit whose text is null, empty, or empty once cut at the
\* first "<" has no "Mishnah n: " line in any Document.
C2_NoInvalidUnitInDocuments ==
    DocumentsBuilt =>
      \A i \in 1..Len(texts) : \A c \in 1..Len(ChaptersRead(i)) :
        \A n \in 1..Len(ChaptersRead(i)[c]) :
          InvalidUnit(ChaptersRead(i)[c][n]) =>
            \A d \in DocumentsFor(texts[i].tractate, c) :
              LET lines == SplitLines(documents[d].text)
              IN  \A l \in 1..Len(lines) : ~StartsWith(lines[l], LinePrefix(n))

\* The i-th tractate's fetch failed (or its 'text' was no list); it
\* succeeded with a chapter list.
FetchFailed(i) ==
    outcomes[i] \in {"RequestException", "ObjectNoText", "ObjectTextNotList"}
FetchSucceeded(i) == outcomes[i] = "ObjectTextList"

HasUnit(i) == \E c \in 1..Len(texts[i].chapters) : texts[i].chapters[c] # <<>>
HasStringUnit(i) ==
    \E c \in 1..Len(texts[i].chapters) :
      \E n \in 1..Len(texts[i].chapters[c]) : ~texts[i].chapters[c][n].null

C7_BlockListsItsUnitsInOrder ==
    DocumentsBuilt =>
      /\ \A i \in 1..Len(texts) : \A c \in 1..Len(ChaptersRead(i)) :
           LET chapter == ChaptersRead(i)[c]
               docs == DocumentsFor(texts[i].tractate, c)
           IN  (\E n \in 1..Len(chapter) : ~InvalidUnit(chapter[n])) =>
                 /\ Cardinality(docs) = 1
                 /\ \A d \in docs :
                      LET lines == SplitLines(documents[d].text)
                      IN  /\ Len(lines) = Len(chapter)
                          /\ \A n \in 1..Len(chapter) :
                               /\ StartsWith(lines[n], LinePrefix(n))
                               /\ ~chapter[n].null =>
                                    lines[n] = LinePrefix(n)
                                       \o LongestCleanPrefix(chapter[n].s)
      /\ \A d \in 1..Len(documents) :
           \E i \in 1..Len(texts) :
             /\ texts[i].tractate = documents[d].tractate
             /\ documents[d].chapter \in 1..Len(ChaptersRead(i))

\* C7's case: a Document of a chapter of two Units, one of them with markup
\* after its text.
C7_TwoUnitChapterAssembled ==
    /\ DocumentsBuilt
    /\ \E i \in 1..Len(texts) : \E c \in 1..Len(ChaptersRead(i)) :
         /\ Len(ChaptersRead(i)[c]) = 2
         /\ ChaptersRead(i)[c][2] = JStr(<<"a", "<", "b">>)
         /\ ~InvalidUnit(ChaptersRead(i)[c][1])
         /\ DocumentsFor(texts[i].tractate, c) # {}

\* The index entries of the d-th Document.
EntriesOf(d) == { e \in 1..Len(nodes) : nodes[e].doc = d }

IndexBuilt == pc \in {"engine", "serve"}

---------------------------------------------------------------------------
(* Properties of the chat engine (checked under SpecChat)                  *)

\* A call of chat_interface has returned or raised.
Called == last.n > 0

IsPrefix(s, t) == Len(s) <= Len(t) /\ SubSeq(t, 1, Len(s)) = s

\* C3 (as claimed): the memory used to answer a message of one session shows
\* no turn of another session.
C3_MemoryNotSharedBetweenSessions ==
    Called => \A i \in 1..Len(last.view) : last.view[i].session = last.session

\* C5: when chat_engine.chat raises, the memory is what it was before the
\* call: neither the user message nor an answer was put.
C5_FailedTurnLeavesMemoryUnchanged ==
    Called /\ last.raised => chat_memory = last.before

\* C5's case: generation failed in a conversation that already had a Turn.
C5_GenerationFailedAfterATurn ==
    Called /\ last.raised /\ last.before # <<>>

\* C6 (as claimed): when the retriever returns nothing, the answer is the
\* refusal sentence, and the Turn is put in the memory.
C6_ZeroResultsAnswersRefusal ==
    Called /\ results.hits = <<>> =>
      /\ ~last.raised
      /\ last.response = Refusal
      /\ chat_memory = last.before
            \o << [role |-> "user", content |-> last.message,
                   session |-> last.session],
                  [role |-> "assistant", content |-> Refusal,
                   session |-> last.session] >>

\* The Turns of the chat store: a user message and its answer each.
NumTurns == Len(chat_memory) \div 2

\* The last k Turns of the chat store.
LastTurns(k) ==
    SubSeq(chat_memory, Len(chat_memory) - 2 * k + 1, Len(chat_memory))

RECURSIVE Cost(_)
\* The estimated cost of a list of messages.
Cost(messages) ==
    IF messages = <<>> THEN 0
    ELSE ContentTokens(messages[1].content) + Cost(Tail(messages))

\* C8 (as claimed), read on the history handed to the model: it ends with
\* the most recent Turn, it is made of whole most recent Turns, and the
\* Turns before the most recent one cost no more than the budget.
C8_ViewKeepsMostRecentTurn ==
    LET view == memory_get(chat_memory)
    IN  /\ Len(view) >= 2
        /\ view = LastTurns(Len(view) \div 2)
        /\ Cost(SubSeq(view, 1, Len(view) - 2)) <= token_limit

\* C8 (as claimed), read on the chat store: what it retains before the most
\* recent Turn costs no more than the budget.
C8_StoreWithinBudget ==
    Cost(SubSeq(chat_memory, 1, Len(chat_memory) - 2)) <= token_limit

---------------------------------------------------------------------------
(* Properties of the retriever (checked under SpecRetrieve)                *)

Retrieved == results.query # "none"

\* The similarity of the e-th index entry to the query of the last call.
SimOf(e) == Similarity(QueryEmbedding(results.query), nodes[e].emb)

\* The index entry a hit stands for.
EntryOf(hit) == CHOOSE e \in 1..Len(nodes) : nodes[e].node_id = hit.node_id

\* The place of the e-th entry when the entries are listed by descending
\* similarity, equal similarities in ingestion order.
IngestionRank(e) ==
    1 + Cardinality({ f \in 1..Len(nodes) :
                        SimOf(f) > SimOf(e) \/ (SimOf(f) = SimOf(e) /\ f < e) })

=============================================================================
